---- MODULE Spec2Model ----
(***************************************************************************)
(* CurlingScheduling: the Schedule container, the ScheduleOptimizer        *)
(* constraint-model builder and its solve driver.                          *)
(*                                                                         *)
(* Time is discrete: an instant is date * TicksPerDay + time of day.       *)
(* A team is known by its index in the roster (self.teams); a value of the *)
(* boolean variable schedule[g][t] is 1 iff t is in the set X[g].          *)
(* The CP-SAT back end is an external library: it is modelled by its       *)
(* contract (any status it may report, any assignment of the variables     *)
(* that satisfies every constraint added to the model).                    *)
(***************************************************************************)
EXTENDS Integers, Sequences, FiniteSets, Bags, TLC

VARIABLES
    games,        \* Schedule._games
    assignments,  \* Schedule._assignments
    teams,        \* the roster read from the team CSV
    opt,          \* the ScheduleOptimizer under construction (NoOpt: none yet)
    called,       \* builder calls <<method, arguments>> that returned on opt
    status,       \* status reported by the last solver.Solve
    incumbent,    \* the solver's final values of schedule[g][t], as team sets
    result,       \* what the last solve() returned (the assignment)
    last          \* the last call: its name, arguments and how it ended

vars == <<games, assignments, teams, opt, called, status, incumbent, result, last>>

-----------------------------------------------------------------------------
(* Bounds of the model *)

TicksPerDay == 4    \* clock resolution: instants per calendar day
MaxCells == 8       \* largest games x teams model built call by call
MaxCalls == 2       \* builder calls made on one optimizer before solve
MaxRequired == 3    \* largest required_games passed to assign
MaxNumGames == 1    \* largest num_games passed to require_num_games

(* Program constants *)

None == -1                \* Python's None where an int is optional
num_teams_per_game == 2   \* ScheduleOptimizer.num_teams_per_game

-----------------------------------------------------------------------------
(* Small helpers *)

Range(s) == {s[i] : i \in DOMAIN s}

Max(a, b) == IF a >= b THEN a ELSE b

\* Concatenation of a list of lists.
RECURSIVE Flatten(_)
Flatten(ss) ==
    IF Len(ss) = 0 THEN <<>> ELSE Head(ss) \o Flatten(Tail(ss))

\* The elements of a list, with their multiplicities.
RECURSIVE SeqToBag(_)
SeqToBag(s) ==
    IF Len(s) = 0 THEN EmptyBag ELSE SetToBag({Head(s)}) (+) SeqToBag(Tail(s))

\* [f(i) for i in 1..n] as a list.
Indices(n) == [i \in 1..n |-> i]

\* The elements of a set of integers as an ascending list.
RECURSIVE SortedSeq(_)
SortedSeq(S) ==
    IF S = {} THEN <<>>
    ELSE LET m == CHOOSE x \in S : \A y \in S : x <= y
         IN <<m>> \o SortedSeq(S \ {m})

-----------------------------------------------------------------------------
(* Game.py *)

Game(date, start_time, game_length, venue) ==
    [date |-> date, start_time |-> start_time,
     game_length |-> game_length, venue |-> venue]

game_start(g) == g.date * TicksPerDay + g.start_time

game_end(g) == game_start(g) + g.game_length

\* datetime.date() of an instant
DateOf(instant) == instant \div TicksPerDay

\* Variant: the comparisons of the two branches also admit equality.
overlaps_touching(a, b) ==
    IF game_start(a) = game_start(b) \/ game_end(a) = game_end(b) THEN TRUE
    ELSE IF game_start(a) < game_start(b) THEN game_start(b) <= game_end(a)
    ELSE game_start(a) <= game_end(b)

overlaps(a, b) ==
    IF game_start(a) = game_start(b) \/ game_end(a) = game_end(b) THEN TRUE
    ELSE IF game_start(a) < game_start(b) THEN game_start(b) < game_end(a)
    ELSE game_start(a) < game_end(b)

-----------------------------------------------------------------------------
(* ScheduleOptimizer.py: the model under construction *)

NoOpt == [built |-> FALSE]

NoError == "None"

\* One constraint of the CP model.  kind says which linear form it is:
\*   "Lin"       lo <= sum of schedule[g][t], g in gs, t in ts <= hi,
\*               enforced always (ref = 0), only if venue_in_use[ref]
\*               (ref > 0), or only if not venue_in_use[-ref] (ref < 0)
\*   "Use"       sum of venue_in_use[g], g in gs, = venues_per_start, whose
\*               domain is lo..hi
\*   "Games"     sum over all games of schedule[g][t], ts = {t}, equals the
\*               num_games variable ref, whose domain is lo..hi
\*   "GamesDiff" lo <= num_games variable ref - num_games variable ref2 <= hi
\*   "GamesVal"  lo <= num_games variable ref <= hi
\*   "AllThere"  temp[g] = product of schedule[g][t], t in ts (gs = {g})
\*   "Vs"        number of games with every team of ts = num_games_vs[ts],
\*               whose domain is lo..hi
\*   "VsDiff"    lo <= num_games_vs[ts] - num_games_vs[ts2] <= hi
\*   "Bool"      model.Add of a Python bool: lo = 1 for True, 0 for False
\*   "Def"       a reified definition of a fresh helper variable
Con(kind, gs, ts, ts2, lo, hi, ref, ref2) ==
    [kind |-> kind, gs |-> gs, ts |-> ts, ts2 |-> ts2,
     lo |-> lo, hi |-> hi, ref |-> ref, ref2 |-> ref2]

Lin(gs, ts, lo, hi, ref) == Con("Lin", gs, ts, {}, lo, hi, ref, 0)

\* A handle held in num_games_vars: an IntVar (its index) or, once
\* require_num_games has overwritten the list, a Constraint object.
ConstraintObject == None

StartTimes(gms) == SortedSeq({game_start(gms[g]) : g \in DOMAIN gms})

GamesAt(gms, start) == {g \in DOMAIN gms : game_start(gms[g]) = start}

\* itertools.combinations(teams, 2), as sets of team indices
TeamPairs(nteams) ==
    Flatten([a \in 1..(nteams - 1) |->
                [k \in 1..(nteams - a) |-> {a, a + k}]])

\* itertools.permutations(list, 2): index pairs <<i, j>>, i # j, in order
Permutations2(n) ==
    Flatten([i \in 1..n |->
                SelectSeq([j \in 1..n |-> <<i, j>>], LAMBDA p : p[1] # p[2])])

ScheduleOptimizer(gms, tms) ==
    LET starts == StartTimes(gms)
    IN [built |-> TRUE,
        games |-> gms,
        teams |-> tms,
        constraints |-> {},
        objectives |-> {},
        model |-> SeqToBag([i \in 1..Len(starts) |->
                     Con("Use", GamesAt(gms, starts[i]), {}, {},
                         0, Cardinality(GamesAt(gms, starts[i])), 0, 0)]),
        nvars |-> Len(gms) * Len(tms) + Len(gms) + Len(starts)
                    + Len(TeamPairs(Len(tms))),
        num_games_vars |-> <<>>,   \* IntVar indices, or ConstraintObject
        empty_draws |-> FALSE,
        num_double_headers |-> FALSE,
        data |-> <<>>]   \* what unavailable_constraint was registered with

Returned(b) == [b |-> b, err |-> NoError]

Raised(b, e) == [b |-> b, err |-> e]

AllGames(b) == 1..Len(b.games)

AllTeams(b) == 1..Len(b.teams)

\* Registers tag and appends the new constraints and variables.
Extend(b, tag, cons, newvars) ==
    [b EXCEPT !.constraints = @ \cup {tag},
              !.model = @ (+) SeqToBag(cons),
              !.nvars = @ + newvars]

\* Variant: both sums are imposed without OnlyEnforceIf.
teams_per_game_constraint_unconditional(b) ==
    Returned(Extend(b, "TeamsPerGame",
        Flatten([d \in AllGames(b) |->
            <<Lin({d}, AllTeams(b), num_teams_per_game, num_teams_per_game, 0),
              Lin({d}, AllTeams(b), 0, 0, 0)>>]),
        0))

teams_per_game_constraint(b) ==
    IF "TeamsPerGame" \in b.constraints THEN Returned(b)
    ELSE Returned(Extend(b, "TeamsPerGame",
            Flatten([d \in AllGames(b) |->
                <<Lin({d}, AllTeams(b), num_teams_per_game, num_teams_per_game, d),
                  Lin({d}, AllTeams(b), 0, 0, -d)>>]),
            0))

\* overlapping_games[a]: a itself and every b with a.overlaps(b)
OverlapGroup(b, a) ==
    {a} \cup {o \in AllGames(b) : o # a /\ overlaps(b.games[a], b.games[o])}

\* Variant: each group holds the game alone, without the games it overlaps.
no_double_scheduling_constraint_own_game(b) ==
    Returned(Extend(b, "DoubleScheduling",
        Flatten([a \in AllGames(b) |->
            [t \in AllTeams(b) |-> Lin({a}, {t}, 0, 1, 0)]]),
        0))

no_double_scheduling_constraint(b) ==
    IF "DoubleScheduling" \in b.constraints THEN Returned(b)
    ELSE Returned(Extend(b, "DoubleScheduling",
            Flatten([a \in AllGames(b) |->
                [t \in AllTeams(b) |-> Lin(OverlapGroup(b, a), {t}, 0, 1, 0)]]),
            0))

\* Sum of schedule[g][t] over all games equals num_games variable v.
GamesCon(b, t, v) == Con("Games", AllGames(b), {t}, {}, 0, Len(b.games), v, 0)

\* Variant: the other tag is not looked at.
equal_games_constraint_unchecked(b, exact) ==
    IF exact THEN
        Returned([Extend(b, "ExactlyEqualGames",
                         [t \in AllTeams(b) |-> GamesCon(b, t, 0)], 1)
                    EXCEPT !.num_games_vars = <<0>>])
    ELSE
        Returned([Extend(b, "AlmostEqualGames",
                         [t \in AllTeams(b) |-> GamesCon(b, t, t)],
                         Len(b.teams))
                    EXCEPT !.num_games_vars = [t \in AllTeams(b) |-> t]])

\* Exact: one variable "Games Per Team" (index 0) shared by the teams.
\* Almost: one variable per team (index t), pairwise within one.
equal_games_constraint(b, exact) ==
    IF exact THEN
        IF "ExactlyEqualGames" \in b.constraints THEN Returned(b)
        ELSE IF "AlmostEqualGames" \in b.constraints THEN Raised(b, "RuntimeError")
        ELSE Returned([Extend(b, "ExactlyEqualGames",
                              [t \in AllTeams(b) |-> GamesCon(b, t, 0)], 1)
                         EXCEPT !.num_games_vars = <<0>>])
    ELSE
        IF "AlmostEqualGames" \in b.constraints THEN Returned(b)
        ELSE IF "ExactlyEqualGames" \in b.constraints THEN Raised(b, "RuntimeError")
        ELSE Returned([Extend(b, "AlmostEqualGames",
                              [t \in AllTeams(b) |-> GamesCon(b, t, t)]
                              \o [k \in DOMAIN Permutations2(Len(b.teams)) |->
                                    Con("GamesDiff", {}, {}, {}, -1, 1,
                                        Permutations2(Len(b.teams))[k][1],
                                        Permutations2(Len(b.teams))[k][2])],
                              Len(b.teams))
                         EXCEPT !.num_games_vars = [t \in AllTeams(b) |-> t]])

\* The counting part of round_robin_constraint, with the pairwise
\* differences of the counts held within bound (bound < 0: not held at all).
RoundRobinWithin(b, bound) ==
    LET pairs == TeamPairs(Len(b.teams))
        perms == Permutations2(Len(pairs))
    IN Returned(Extend(b, "RoundRobin",
           Flatten([p \in DOMAIN pairs |->
               [g \in AllGames(b) |->
                   Con("AllThere", {g}, pairs[p], {}, 0, 1, 0, 0)]
               \o <<Con("Vs", AllGames(b), pairs[p], {}, 0, Len(b.teams), 0, 0)>>])
           \o (IF bound < 0 THEN <<>>
               ELSE [k \in DOMAIN perms |->
                       Con("VsDiff", AllGames(b), pairs[perms[k][1]],
                           pairs[perms[k][2]], -bound, bound, 0, 0)]),
           1 + Len(pairs) * Len(b.games)))

\* Variant: the counts are defined but their differences are left free.
round_robin_constraint_no_diff(b) == RoundRobinWithin(b, -1)

\* Variant: the counts may differ by two.
round_robin_constraint_within_two(b) == RoundRobinWithin(b, 2)

\* Variant: a pair's count may be as large as the number of games.
round_robin_constraint_count_to_games(b) ==
    IF "RoundRobin" \in b.constraints THEN Returned(b)
    ELSE LET pairs == TeamPairs(Len(b.teams))
             perms == Permutations2(Len(pairs))
         IN Returned(Extend(b, "RoundRobin",
                Flatten([p \in DOMAIN pairs |->
                    [g \in AllGames(b) |->
                        Con("AllThere", {g}, pairs[p], {}, 0, 1, 0, 0)]
                    \o <<Con("Vs", AllGames(b), pairs[p], {}, 0, Len(b.games), 0, 0)>>])
                \o [k \in DOMAIN perms |->
                      Con("VsDiff", AllGames(b), pairs[perms[k][1]],
                          pairs[perms[k][2]], -1, 1, 0, 0)],
                1 + Len(pairs) * Len(b.games)))

round_robin_constraint(b) ==
    IF "RoundRobin" \in b.constraints THEN Returned(b)
    ELSE LET pairs == TeamPairs(Len(b.teams))
             perms == Permutations2(Len(pairs))
         IN Returned(Extend(b, "RoundRobin",
                Flatten([p \in DOMAIN pairs |->
                    [g \in AllGames(b) |->
                        Con("AllThere", {g}, pairs[p], {}, 0, 1, 0, 0)]
                    \o <<Con("Vs", AllGames(b), pairs[p], {}, 0, Len(b.teams), 0, 0)>>])
                \o [k \in DOMAIN perms |->
                      Con("VsDiff", AllGames(b), pairs[perms[k][1]],
                          pairs[perms[k][2]], -1, 1, 0, 0)],
                1 + Len(pairs) * Len(b.games)))

\* A marker of unavailability: a datetime.date or a datetime.datetime.
DateMarker(d) == [type |-> "date", value |-> d]

DatetimeMarker(i) == [type |-> "datetime", value |-> i]

\* isinstance(start, datetime.date): datetime is a subclass of date.
IsInstanceDate(m) == m.type \in {"date", "datetime"}

IsInstanceDatetime(m) == m.type = "datetime"

\* date == marker: a date never equals a datetime.
DateEquals(d, m) == m.type = "date" /\ m.value = d

\* datetime == marker: a datetime never equals a plain date.
DatetimeEquals(i, m) == m.type = "datetime" /\ m.value = i

\* Variant: only the date branch of the test.
MarkerMatches_date_only(game, m) ==
    IsInstanceDate(m) /\ DateEquals(DateOf(game_start(game)), m)

MarkerMatches(game, m) ==
    \/ IsInstanceDate(m) /\ DateEquals(DateOf(game_start(game)), m)
    \/ IsInstanceDatetime(m) /\ DatetimeEquals(game_start(game), m)

\* data: a list of <<team index, list of markers>> (the dict's items).
unavailable_constraint(b, data) ==
    IF "Unavailability" \in b.constraints THEN Returned(b)
    ELSE IF \E e \in DOMAIN data : data[e][1] \notin AllTeams(b)
         THEN Raised(b, "ValueError")
    ELSE Returned(Extend([b EXCEPT !.data = data], "Unavailability",
            Flatten([e \in DOMAIN data |->
                Flatten([m \in DOMAIN data[e][2] |->
                    LET g_s == SelectSeq(Indices(Len(b.games)),
                                 LAMBDA g : MarkerMatches(b.games[g], data[e][2][m]))
                    IN [k \in DOMAIN g_s |-> Lin({g_s[k]}, {data[e][1]}, 0, 0, 0)]])]),
            0))

\* self.objectives[tag] = {"weight": ..., "objective": ...}
SetObjective(b, tag, weight, kind, gs, ts) ==
    [b EXCEPT !.objectives = {o \in @ : o.tag # tag} \cup
        {[tag |-> tag, weight |-> weight, kind |-> kind, gs |-> gs, ts |-> ts]}]

ObjectiveTags(b) == {o.tag : o \in b.objectives}

\* The starts kept by the filter: those with some other start before them.
LaterStarts(b) ==
    {s \in Range(StartTimes(b.games)) :
        \E other \in Range(StartTimes(b.games)) : other < s}

first_draw_games(b) == {g \in AllGames(b) : game_start(b.games[g]) \in LaterStarts(b)}

\* The guard looks the objective tag up in self.constraints.
icemaker_objective(b, icemakers) ==
    IF "IceMakers" \in b.constraints THEN Returned(b)
    ELSE LET F == first_draw_games(b)
             n == Cardinality(F) * Cardinality(icemakers)
         IN Returned(SetObjective(
                [b EXCEPT !.model = @ (+) SeqToBag(
                    <<IF n = 0 THEN Con("Bool", {}, {}, {}, 0, 0, 0, 0)
                      ELSE Lin(F, icemakers, 1, n, 0)>>)],
                "IceMakers", 4, "Sum", F, icemakers))

\* The dates on which some game starts or ends, and the games of a date.
GameDates(b) ==
    {DateOf(game_start(b.games[g])) : g \in AllGames(b)}
        \cup {DateOf(game_end(b.games[g])) : g \in AllGames(b)}

\* Variant: a game belongs to its start date only.
same_day_games_by_start(b, date) ==
    {g \in AllGames(b) : DateOf(game_start(b.games[g])) = date}

same_day_games(b, date) ==
    {g \in AllGames(b) : \/ DateOf(game_start(b.games[g])) = date
                         \/ DateOf(game_end(b.games[g])) = date}

disallow_double_headers(b) ==
    IF "NoDoubleHeaders" \in b.constraints THEN Returned(b)
    ELSE LET dates == SortedSeq(GameDates(b))
         IN Returned(Extend(b, "NoDoubleHeaders",
                Flatten([d \in DOMAIN dates |->
                    [t \in AllTeams(b) |->
                        Lin(same_day_games(b, dates[d]), {t}, 1, 1, 0)]]),
                0))

minimize_double_headers(b) ==
    IF "NoDoubleHeaders" \in b.constraints THEN Raised(b, "RuntimeError")
    ELSE IF "MinimizeDoubleHeaders" \in ObjectiveTags(b) THEN Returned(b)
    ELSE LET dates == SortedSeq(GameDates(b))
             defs == <<Con("Def", {}, {}, {}, 0, 0, 0, 0),
                       Con("Def", {}, {}, {}, 0, 0, 0, 0)>>
         IN Returned(SetObjective(
                [b EXCEPT !.model = @ (+) SeqToBag(
                        Flatten([t \in AllTeams(b) |->
                            Flatten([d \in DOMAIN dates |-> defs])
                            \o <<Con("DoubleHeaders", AllGames(b), {t}, {},
                                     0, Len(b.games), 0, 0)>>])
                        \o <<Con("DoubleHeaders", AllGames(b), AllTeams(b), {},
                                 0, Len(b.teams) * Len(b.games), 0, 0)>>),
                    !.nvars = @ + Len(b.teams) * Len(dates) + Len(b.teams) + 1,
                    !.num_double_headers = TRUE],
                "MinimizeDoubleHeaders", -1, "DoubleHeaders", AllGames(b), AllTeams(b)))

\* The guard looks the constraint tag up in self.objectives.
maximize_games_objective(b) ==
    IF "ExactNumGames" \in ObjectiveTags(b) THEN Raised(b, "RuntimeError")
    ELSE Returned(SetObjective(b, "MaximizeNumGames", 1, "Sum",
                               AllGames(b), AllTeams(b)))

\* model.Add(v == num_games) / model.Add(v >= num_games) for a handle v:
\* an IntVar gives a bounded linear expression; a Constraint object compares
\* unequal to an int (model.Add(False)).
NumGamesCon(b, v, lo, hi) ==
    IF v = ConstraintObject THEN Con("Bool", {}, {}, {}, 0, 0, 0, 0)
    ELSE Con("GamesVal", {}, {}, {}, lo, hi, v, 0)

require_num_games(b, num_games, exact, max_games) ==
    IF exact THEN
        IF max_games # None THEN Raised(b, "ValueError")
        ELSE IF "MaximizeNumGames" \in ObjectiveTags(b) THEN Raised(b, "RuntimeError")
        ELSE LET eq == IF "ExactlyEqualGames" \notin b.constraints
                       THEN equal_games_constraint(b, TRUE) ELSE Returned(b)
                 b1 == eq.b
             IN IF eq.err # NoError THEN Raised(b, eq.err)
                ELSE Returned([Extend(b1, "ExactNumGames",
                        [k \in DOMAIN b1.num_games_vars |->
                            NumGamesCon(b1, b1.num_games_vars[k], num_games, num_games)],
                        0)
                      EXCEPT !.num_games_vars =
                                [k \in DOMAIN b1.num_games_vars |-> ConstraintObject]])
    ELSE
        IF max_games = None THEN Raised(b, "TypeError")
        ELSE IF max_games <= num_games THEN Raised(b, "ValueError")
        ELSE LET eq == IF "ExactlyEqualGames" \notin b.constraints
                       THEN equal_games_constraint(b, FALSE) ELSE Returned(b)
                 b1 == eq.b
             IN IF eq.err # NoError THEN Raised(b, eq.err)
                ELSE IF \E k \in DOMAIN b1.num_games_vars :
                            b1.num_games_vars[k] = ConstraintObject
                     THEN Raised(b1, "TypeError")
                ELSE Returned([Extend(b1, "MinimumRequiredGames",
                        [k \in DOMAIN b1.num_games_vars |->
                            NumGamesCon(b1, b1.num_games_vars[k], num_games, Len(b1.games))]
                        \o [k \in DOMAIN b1.num_games_vars |->
                              Con("Bool", {}, {}, {}, 1, 1, 0, 0)],
                        0)
                      EXCEPT !.num_games_vars =
                                [k \in DOMAIN b1.num_games_vars |-> ConstraintObject]])

empty_full_draw_objective(b) ==
    IF "EmptyFullDraws" \in ObjectiveTags(b) THEN Returned(b)
    ELSE LET unique_draws == Len(StartTimes(b.games))
         IN Returned(SetObjective(
                [b EXCEPT !.model = @ (+) SeqToBag(
                        [k \in 1..(6 * unique_draws + 3) |->
                            Con("Def", {}, {}, {}, 0, unique_draws, 0, 0)]),
                    !.nvars = @ + 3 * unique_draws + 3,
                    !.empty_draws = TRUE],
                "EmptyFullDraws", 1, "EmptyFull", AllGames(b), {}))

-----------------------------------------------------------------------------
(* The CP-SAT back end: which assignments of the variables satisfy the     *)
(* model.  A candidate gives, per game g, x = {t : schedule[g][t] = 1} and *)
(* u = venue_in_use[g]; every other variable of the model is defined by an *)
(* equality over these, so its value is computed and checked against its   *)
(* domain.                                                                 *)

Sum(sol, gs, ts) == Cardinality({p \in gs \X ts : p[2] \in sol[p[1]].x})

TeamGames(sol, t) == Cardinality({g \in DOMAIN sol : t \in sol[g].x})

\* Value of num_games variable v: "Games Per Team" (0) or "Games for t".
NumGamesValue(sol, v) == TeamGames(sol, IF v = 0 THEN 1 ELSE v)

\* Value of num_games_vs[pair]: the games where the whole pair is there.
VsValue(sol, pair) == Cardinality({g \in DOMAIN sol : pair \subseteq sol[g].x})

DoubleHeaderValue(b, sol, ts) ==
    Cardinality({p \in ts \X GameDates(b) :
                    Sum(sol, same_day_games(b, p[2]), {p[1]}) > 1})

Enforced(c, sol) ==
    \/ c.ref = 0
    \/ c.ref > 0 /\ sol[c.ref].u
    \/ c.ref < 0 /\ ~sol[-c.ref].u

Holds(b, c, sol) ==
    CASE c.kind = "Lin" ->
            Enforced(c, sol) => Sum(sol, c.gs, c.ts) \in c.lo..c.hi
      [] c.kind = "Use" ->
            Cardinality({g \in c.gs : sol[g].u}) \in c.lo..c.hi
      [] c.kind = "Games" ->
            /\ Sum(sol, c.gs, c.ts) = NumGamesValue(sol, c.ref)
            /\ NumGamesValue(sol, c.ref) \in c.lo..c.hi
      [] c.kind = "GamesDiff" ->
            NumGamesValue(sol, c.ref) - NumGamesValue(sol, c.ref2) \in c.lo..c.hi
      [] c.kind = "GamesVal" -> NumGamesValue(sol, c.ref) \in c.lo..c.hi
      [] c.kind = "AllThere" -> TRUE
      [] c.kind = "Vs" -> VsValue(sol, c.ts) \in c.lo..c.hi
      [] c.kind = "VsDiff" ->
            VsValue(sol, c.ts) - VsValue(sol, c.ts2) \in c.lo..c.hi
      [] c.kind = "Bool" -> c.lo = 1
      [] c.kind = "DoubleHeaders" -> DoubleHeaderValue(b, sol, c.ts) \in c.lo..c.hi
      [] c.kind = "Def" -> TRUE

\* The games whose variables a constraint reads, when it reads only some.
Scope(c) ==
    IF c.kind \in {"Lin", "Use"}
    THEN c.gs \cup (IF c.ref > 0 THEN {c.ref} ELSE IF c.ref < 0 THEN {-c.ref} ELSE {})
    ELSE {}

\* Constraints fully decided once games 1..k have their values.
DecidedAt(b, k) ==
    {c \in BagToSet(b.model) : k \in Scope(c) /\ \A g \in Scope(c) : g <= k}

GameValues(b) == [x : SUBSET AllTeams(b), u : BOOLEAN]

\* Values of games 1..k that violate no constraint over those games alone.
RECURSIVE Partial(_, _)
Partial(b, k) ==
    IF k = 0 THEN {<<>>}
    ELSE LET decided == DecidedAt(b, k)
         IN {s \in {Append(p, v) : p \in Partial(b, k - 1), v \in GameValues(b)} :
                \A c \in decided : Holds(b, c, s)}

Solutions(b) ==
    LET rest == {c \in BagToSet(b.model) : Scope(c) = {}}
    IN {s \in Partial(b, Len(b.games)) : \A c \in rest : Holds(b, c, s)}

\* [team for t, team in enumerate(teams) if Value(schedule[g][t]) == 1]
TeamsOf(b, x) == [k \in DOMAIN SortedSeq(x) |-> b.teams[SortedSeq(x)[k]]]

Assignment(b, sol) == [g \in DOMAIN sol |-> TeamsOf(b, sol[g].x)]

Outcome(st, e, sol, a) ==
    [status |-> st, err |-> e,
     incumbent |-> [g \in DOMAIN sol |-> sol[g].x], assignment |-> a]

\* Variant: UNKNOWN is taken for a status with an incumbent.
solve_any_status(b) ==
    {[status |-> "UNKNOWN", err |-> NoError,
      incumbent |-> [g \in AllGames(b) |-> {}],
      assignment |-> [g \in AllGames(b) |-> <<>>]]}

\* What solve() can end in.  Every incumbent goes through the solution
\* callback, which reads Value(self.empty_draws): None unless
\* empty_full_draw_objective was called, and then a TypeError inside the
\* solver's own thread, which the back end may drop or let end the solve.
solve(b) ==
    LET sols == Solutions(b)
    IN {Outcome(st, NoError, s, Assignment(b, s)) :
            st \in {"OPTIMAL", "FEASIBLE"}, s \in sols}
       \cup (IF sols # {} /\ ~b.empty_draws
             THEN {Outcome("NONE", "TypeError", <<>>, <<>>)} ELSE {})
       \cup (IF sols = {}
             THEN {Outcome("INFEASIBLE", "RuntimeError", <<>>, <<>>)} ELSE {})
       \cup {Outcome(st, "RuntimeError", <<>>, <<>>) :
                st \in {"UNKNOWN", "MODEL_INVALID"}}

-----------------------------------------------------------------------------
(* Schedule.py *)

\* Schedule(games): every game starts with an empty assignment.
EmptyAssignments(gms) == [g \in DOMAIN gms |-> <<>>]

\* Runs op on the builder unless an earlier call already raised.
Then(r, op(_)) == IF r.err # NoError THEN r ELSE op(r.b)

\* The builder calls of Schedule.assign, in its order.
AssignModel(gms, tms, required_games) ==
    LET EqualExact(b) == equal_games_constraint(b, TRUE)
        Required(b) == IF required_games # None
                       THEN require_num_games(b, required_games, TRUE, None)
                       ELSE maximize_games_objective(b)
    IN Then(Then(Then(Then(Then(
            no_double_scheduling_constraint(ScheduleOptimizer(gms, tms)),
            teams_per_game_constraint),
            EqualExact),
            round_robin_constraint),
            Required),
            disallow_double_headers)

-----------------------------------------------------------------------------
(* Inputs *)

Sheet1 == "Sheet 1"

Sheet2 == "Sheet 2"

Slot(date, start_time, game_length) == Game(date, start_time, game_length, Sheet1)

SameDate == <<Slot(0, 0, 1), Slot(0, 2, 1)>>

Overlapping == <<Slot(0, 0, 2), Slot(0, 1, 2)>>

\* the second game starts at the instant the first ends
BackToBack == <<Slot(0, 0, 1), Slot(0, 1, 2)>>

\* a game over three dates and a game on the middle one
ThreeDateGame == <<Slot(0, 0, 2 * TicksPerDay + 1), Slot(1, 1, 1)>>

\* a game that ends after midnight and a game on that next date
PastMidnight == <<Slot(0, TicksPerDay - 1, 2), Slot(1, 2, 1)>>

OneADate == <<Slot(0, 0, 1), Slot(1, 0, 1), Slot(2, 0, 1)>>

\* a long game and two short ones inside it that do not overlap each other
LongAndTwoShort == <<Slot(0, 0, 3), Slot(0, 0, 1), Slot(0, 2, 1)>>

\* one draw on two sheets
TwoSheets == <<Game(0, 0, 1, Sheet1), Game(0, 0, 1, Sheet2)>>

TwoDates == <<Slot(0, 0, 1), Slot(0, 2, 1), Slot(1, 0, 1), Slot(1, 2, 1)>>

SixGamesTwoADate ==
    <<Slot(0, 0, 1), Slot(0, 2, 1), Slot(1, 0, 1), Slot(1, 2, 1),
      Slot(2, 0, 1), Slot(2, 2, 1)>>

SixGamesOneADate ==
    <<Slot(0, 0, 1), Slot(1, 0, 1), Slot(2, 0, 1), Slot(3, 0, 1),
      Slot(4, 0, 1), Slot(5, 0, 1)>>

Roster(n) == SubSeq(<<"A", "B", "C", "D">>, 1, n)

Input(gms, n) == [games |-> gms, teams |-> Roster(n)]

\* The draw schedules and rosters the program is run on.
Inputs ==
    {Input(SameDate, 2), Input(SameDate, 4),
     Input(Overlapping, 2), Input(Overlapping, 3),
     Input(BackToBack, 2),
     Input(ThreeDateGame, 2),
     Input(PastMidnight, 2),
     Input(OneADate, 2),
     Input(LongAndTwoShort, 2),
     Input(TwoSheets, 3),
     Input(TwoDates, 4),
     Input(SixGamesTwoADate, 4),
     Input(SixGamesOneADate, 4)}

\* Unavailability of the first team: on the date of the last game, at the
\* start instant of the first game, or both.
UnavailableData(b) ==
    LET on == DateMarker(DateOf(game_start(b.games[Len(b.games)])))
        at == DatetimeMarker(game_start(b.games[1]))
    IN {<< <<1, <<on>> >> >>, << <<1, <<at>> >> >>, << <<1, <<on, at>> >> >>}

-----------------------------------------------------------------------------
(* The state machine *)

Call(op, arg) == [op |-> op, arg |-> arg, err |-> NoError, n |-> 0]

Init ==
    /\ \E i \in Inputs : games = i.games /\ teams = i.teams
    /\ assignments = EmptyAssignments(games)
    /\ opt = NoOpt
    /\ called = {}
    /\ status = "NONE"
    /\ incumbent = <<>>
    /\ result = <<>>
    /\ last = Call("Schedule", <<>>)

\* optimizer = ScheduleOptimizer(games, teams)
NewOptimizer ==
    /\ ~opt.built
    /\ last.op = "Schedule"
    /\ Len(games) * Len(teams) <= MaxCells
    /\ opt' = ScheduleOptimizer(games, teams)
    /\ last' = Call("ScheduleOptimizer", <<>>)
    /\ UNCHANGED <<games, assignments, teams, called, status, incumbent, result>>

Building == opt.built /\ last.op # "solve" /\ last.n < MaxCalls

\* One builder call that ended as r says.
Builder(op, arg, r) ==
    /\ opt' = r.b
    /\ called' = IF r.err = NoError THEN called \cup {<<op, arg>>} ELSE called
    /\ last' = [op |-> op, arg |-> arg, err |-> r.err, n |-> last.n + 1]
    /\ UNCHANGED <<games, assignments, teams, status, incumbent, result>>

TeamsPerGame ==
    Building /\ Builder("teams_per_game_constraint", <<>>, teams_per_game_constraint(opt))

NoDoubleScheduling ==
    Building /\ Builder("no_double_scheduling_constraint", <<>>,
                        no_double_scheduling_constraint(opt))

EqualGames ==
    Building /\ \E exact \in BOOLEAN :
        Builder("equal_games_constraint", <<IF exact THEN 1 ELSE 0>>,
                equal_games_constraint(opt, exact))

RoundRobin ==
    Building /\ Builder("round_robin_constraint", <<>>, round_robin_constraint(opt))

Unavailable ==
    Building /\ \E data \in UnavailableData(opt) :
        Builder("unavailable_constraint", data, unavailable_constraint(opt, data))

IceMaker ==
    Building /\ \E icemakers \in {{1}} :
        Builder("icemaker_objective", icemakers, icemaker_objective(opt, icemakers))

DisallowDoubleHeaders ==
    Building /\ Builder("disallow_double_headers", <<>>, disallow_double_headers(opt))

MinimizeDoubleHeaders ==
    Building /\ Builder("minimize_double_headers", <<>>, minimize_double_headers(opt))

MaximizeGamesObjective ==
    Building /\ Builder("maximize_games_objective", <<>>, maximize_games_objective(opt))

RequireNumGames ==
    Building /\ \E num_games \in 1..MaxNumGames, exact \in BOOLEAN :
        \E max_games \in {None, num_games + 1} :
            Builder("require_num_games",
                    <<num_games, IF exact THEN 1 ELSE 0, max_games>>,
                    require_num_games(opt, num_games, exact, max_games))

EmptyFullDraw ==
    Building /\ Builder("empty_full_draw_objective", <<>>, empty_full_draw_objective(opt))

\* assignment = optimizer.solve()
Solve ==
    /\ opt.built
    /\ last.op # "solve"
    /\ \E o \in solve(opt) :
        /\ status' = o.status
        /\ incumbent' = o.incumbent
        /\ result' = o.assignment
        /\ last' = [op |-> "solve", arg |-> <<>>, err |-> o.err, n |-> 0]
    /\ UNCHANGED <<games, assignments, teams, opt, called>>

\* schedule.assign(teams, required_games)
Assign ==
    /\ ~opt.built
    /\ last.op = "Schedule"
    /\ \E required_games \in {None} \cup 1..MaxRequired :
        LET built == AssignModel(games, teams, required_games)
            arg == <<required_games>>
        IN IF built.err # NoError
           THEN /\ last' = [op |-> "assign", arg |-> arg, err |-> built.err, n |-> 0]
                /\ UNCHANGED <<assignments, status, incumbent>>
           ELSE \E o \in solve(built.b) :
                /\ assignments' = IF o.err = NoError THEN o.assignment ELSE assignments
                /\ status' = o.status
                /\ incumbent' = o.incumbent
                /\ last' = [op |-> "assign", arg |-> arg, err |-> o.err, n |-> 0]
    /\ UNCHANGED <<games, teams, opt, called, result>>

Next ==
    \/ NewOptimizer
    \/ TeamsPerGame
    \/ NoDoubleScheduling
    \/ EqualGames
    \/ RoundRobin
    \/ Unavailable
    \/ IceMaker
    \/ DisallowDoubleHeaders
    \/ MinimizeDoubleHeaders
    \/ MaximizeGamesObjective
    \/ RequireNumGames
    \/ EmptyFullDraw
    \/ Solve
    \/ Assign

Spec == Init /\ [][Next]_vars

-----------------------------------------------------------------------------
(* Properties *)

AssignReturned == last.op = "assign" /\ last.err = NoError

SolveReturned == last.op = "solve" /\ last.err = NoError

\* The solver ran to a verdict on the model.
Decided == status \in {"OPTIMAL", "FEASIBLE", "INFEASIBLE"}

DistinctStarts ==
    \A g1, g2 \in DOMAIN games :
        g1 # g2 => game_start(games[g1]) # game_start(games[g2])

NoOverlaps ==
    \A g1, g2 \in DOMAIN games : g1 # g2 => ~overlaps(games[g1], games[g2])

OneVenue == \A g1, g2 \in DOMAIN games : games[g1].venue = games[g2].venue

\* The unordered pairs of the roster.
NamePairs == {p \in SUBSET Range(teams) : Cardinality(p) = 2}

\* In how many games of assignment a both teams of pair p play.
PairGames(a, p) == Cardinality({g \in DOMAIN a : p \subseteq Range(a[g])})

\* How many games of assignment a team t plays.
GamesPlayed(a, t) == Cardinality({g \in DOMAIN a : t \in Range(a[g])})

CalledOps == {c[1] : c \in called}

\* A step that is one more builder call on the optimizer.
BuilderCall == last'.n = last.n + 1

\* C1: whenever assign(teams, required_games=None) returns on games with
\* distinct starts, every game holds no team or exactly two different teams,
\* and no team is in two games that overlap.
C1_AssignPairsNoOverlap ==
    (AssignReturned /\ last.arg = <<None>> /\ DistinctStarts) =>
        /\ DOMAIN assignments = DOMAIN games
        /\ \A g \in DOMAIN games :
              /\ Len(assignments[g]) \in {0, num_teams_per_game}
              /\ Cardinality(Range(assignments[g])) = Len(assignments[g])
        /\ \A g1, g2 \in DOMAIN games :
              (g1 # g2 /\ overlaps(games[g1], games[g2])) =>
                  Range(assignments[g1]) \cap Range(assignments[g2]) = {}

\* assign returned a game with two teams on a schedule that has overlapping games
C1_Witness ==
    /\ AssignReturned /\ last.arg = <<None>> /\ DistinctStarts
    /\ \E g1, g2 \in DOMAIN games : g1 # g2 /\ overlaps(games[g1], games[g2])
    /\ \E g \in DOMAIN games : Len(assignments[g]) = num_teams_per_game

Balanced(a) ==
    \A p, q \in NamePairs : PairGames(a, p) - PairGames(a, q) \in -1..1

\* C2: in every solution of a model with round_robin_constraint, the numbers
\* of games that any two pairs of teams play together differ by at most one.
C2_RoundRobinBalanced ==
    /\ (SolveReturned /\ "RoundRobin" \in opt.constraints) => Balanced(result)
    /\ AssignReturned => Balanced(assignments)

\* a solution under RoundRobin for three teams in which some pair plays
C2_Witness ==
    /\ SolveReturned /\ "RoundRobin" \in opt.constraints
    /\ Len(teams) >= 3
    /\ \E p \in NamePairs : PairGames(result, p) >= 1

\* The dates between a game's start and its end, both included.
SpanDates(g) == DateOf(game_start(g)) .. DateOf(game_end(g))

StartsOrEndsOn(g, d) ==
    DateOf(game_start(g)) = d \/ DateOf(game_end(g)) = d

\* C3 as stated: under disallow_double_headers every team is in exactly one
\* game whose span touches a date, for every date in the span of some game.
C3_OneGamePerTouchedDate ==
    (SolveReturned /\ "NoDoubleHeaders" \in opt.constraints) =>
        \A t \in Range(teams) :
            \A d \in UNION {SpanDates(games[g]) : g \in DOMAIN games} :
                Cardinality({g \in DOMAIN games :
                    t \in Range(result[g]) /\ d \in SpanDates(games[g])}) = 1

\* C3: under disallow_double_headers, for every date on which some game
\* starts or ends, every team is in exactly one of the games that start or
\* end on that date.
C3_OneGamePerStartOrEndDate ==
    (SolveReturned /\ "NoDoubleHeaders" \in opt.constraints) =>
        \A t \in Range(teams) :
            \A d \in UNION {{DateOf(game_start(games[g])), DateOf(game_end(games[g]))} :
                            g \in DOMAIN games} :
                Cardinality({g \in DOMAIN games :
                    t \in Range(result[g]) /\ StartsOrEndsOn(games[g], d)}) = 1

\* a solution under NoDoubleHeaders in which a team plays a game and also a
\* game on a date strictly inside the first one's span
C3_Witness ==
    /\ SolveReturned /\ "NoDoubleHeaders" \in opt.constraints
    /\ \E t \in Range(teams) : \E g1, g2 \in DOMAIN games :
          /\ g1 # g2
          /\ t \in Range(result[g1]) /\ t \in Range(result[g2])
          /\ DateOf(game_start(games[g1])) < DateOf(game_start(games[g2]))
          /\ DateOf(game_end(games[g2])) < DateOf(game_end(games[g1]))

\* Scenario S1: four teams and six games on one venue, with distinct starts
\* and no two overlapping.
S1 ==
    /\ Len(teams) = 4 /\ Len(games) = 6
    /\ DistinctStarts /\ NoOverlaps /\ OneVenue

EachPairOnce(a) ==
    /\ \A p \in NamePairs : PairGames(a, p) = 1
    /\ \A t \in Range(teams) : GamesPlayed(a, t) = 3

\* Every date on which a game starts or ends has exactly two such games.
TwoGamesADate ==
    \A g \in DOMAIN games :
        \A d \in {DateOf(game_start(games[g])), DateOf(game_end(games[g]))} :
            Cardinality({h \in DOMAIN games : StartsOrEndsOn(games[h], d)}) = 2

\* C4 as stated: in S1, assign(teams, required_games=3) yields an assignment
\* in which each pair plays exactly one game and every team plays three.
C4_S1YieldsRoundRobin ==
    (S1 /\ last.op = "assign" /\ last.arg = <<3>> /\ Decided) =>
        (last.err = NoError /\ EachPairOnce(assignments))

\* C4: in S1, whenever assign(teams, required_games=3) returns, each pair
\* plays exactly one game and every team plays three, and the games are two
\* to a date; when they are not, the model is infeasible and assign raises.
C4_S1RoundRobinWhenTwoADate ==
    (S1 /\ last.op = "assign" /\ last.arg = <<3>>) =>
        /\ last.err = NoError => (EachPairOnce(assignments) /\ TwoGamesADate)
        /\ (Decided /\ ~TwoGamesADate) =>
              (status = "INFEASIBLE" /\ last.err = "RuntimeError"
               /\ assignments = EmptyAssignments(games))

\* assign(teams, 3) returned in scenario S1
C4_Witness ==
    S1 /\ AssignReturned /\ last.arg = <<3>> /\ EachPairOnce(assignments)

\* Scenario S3: four teams and two games of one date on one venue that do
\* not overlap.
S3 ==
    /\ Len(teams) = 4 /\ Len(games) = 2
    /\ NoOverlaps /\ OneVenue
    /\ \A g \in DOMAIN games : SpanDates(games[g]) = SpanDates(games[1])
    /\ Cardinality(SpanDates(games[1])) = 1

\* C5 as stated: in S3 a model with NoDoubleHeaders has no solution and
\* solve raises; the model without it has one.
C5_S3Infeasible ==
    /\ (S3 /\ last.op = "solve" /\ Decided
           /\ {"TeamsPerGame", "NoDoubleHeaders"} \subseteq opt.constraints) =>
          (status = "INFEASIBLE" /\ last.err = "RuntimeError")
    /\ (S3 /\ last.op = "solve" /\ Decided
           /\ CalledOps = {"teams_per_game_constraint"}) =>
          status # "INFEASIBLE"

\* C5: in S3 the model with TeamsPerGame and NoDoubleHeaders has solutions,
\* and in each of them both games hold two teams and every team plays exactly
\* one of the two games; the model without NoDoubleHeaders has solutions too.
C5_S3Feasible ==
    /\ (S3 /\ opt.built /\ CalledOps = {"teams_per_game_constraint",
                                        "disallow_double_headers"}) =>
          /\ Solutions(opt) # {}
          /\ last.op = "solve" => status # "INFEASIBLE"
          /\ SolveReturned =>
                /\ \A g \in DOMAIN games : Len(result[g]) = num_teams_per_game
                /\ \A t \in Range(teams) : GamesPlayed(result, t) = 1
    /\ (S3 /\ opt.built /\ CalledOps = {"teams_per_game_constraint"}) =>
          /\ Solutions(opt) # {}
          /\ last.op = "solve" => status # "INFEASIBLE"

\* solve returned on the S3 model with TeamsPerGame and NoDoubleHeaders
C5_Witness ==
    /\ S3 /\ SolveReturned
    /\ CalledOps = {"teams_per_game_constraint", "disallow_double_headers"}

\* A game's start matches a marker: the same date for a date, the same
\* instant for an instant.
StartMatches(g, m) ==
    IF m.type = "date" THEN DateOf(game_start(g)) = m.value
    ELSE game_start(g) = m.value

\* C6: after unavailable_constraint(data), in every solution schedule[g][t]
\* is 0 for every team t with a marker in data and every game g whose start
\* matches that marker.
C6_UnavailableZeroed ==
    (SolveReturned /\ "Unavailability" \in opt.constraints) =>
        \A e \in DOMAIN opt.data : \A m \in Range(opt.data[e][2]) :
            \A g \in DOMAIN games :
                StartMatches(games[g], m) =>
                    /\ opt.data[e][1] \notin incumbent[g]
                    /\ teams[opt.data[e][1]] \notin Range(result[g])

\* a solution in which a team with an instant marker plays, but not in the
\* game that starts at that instant
C6_Witness ==
    /\ SolveReturned /\ "Unavailability" \in opt.constraints
    /\ \E e \in DOMAIN opt.data : \E m \in Range(opt.data[e][2]) :
          /\ m.type = "datetime"
          /\ \E g \in DOMAIN games : StartMatches(games[g], m)
          /\ \E g \in DOMAIN games : opt.data[e][1] \in incumbent[g]

\* C7: solve returns exactly when the status is OPTIMAL or FEASIBLE, and
\* then assignment[g] is the teams t with schedule[g][t] = 1 in the
\* incumbent; on INFEASIBLE, UNKNOWN and MODEL_INVALID it raises
\* RuntimeError and returns nothing.
C7_SolveReturnsIffSolved ==
    last.op = "solve" =>
        /\ last.err = NoError <=> status \in {"OPTIMAL", "FEASIBLE"}
        /\ last.err = NoError =>
              /\ DOMAIN result = DOMAIN games
              /\ \A g \in DOMAIN games :
                    /\ Range(result[g]) = {teams[t] : t \in incumbent[g]}
                    /\ Len(result[g]) = Cardinality(incumbent[g])
        /\ status \in {"INFEASIBLE", "UNKNOWN", "MODEL_INVALID"} =>
              (last.err = "RuntimeError" /\ result = <<>>)

\* solve returned an assignment with a team in some game
C7_Witness ==
    /\ SolveReturned /\ status = "FEASIBLE"
    /\ \E g \in DOMAIN games : Len(result[g]) >= 1

\* C8 as stated: a builder call repeated on the same builder returns without
\* error and leaves the model, the tags and the objectives as they were.
C8_SecondCallNoOp ==
    [][(BuilderCall /\ <<last'.op, last'.arg>> \in called) =>
            (last'.err = NoError /\ opt' = opt)]_vars

\* C9: equal_games_constraint(exact=True) on a builder with AlmostEqualGames,
\* and equal_games_constraint(exact=False) on one with ExactlyEqualGames,
\* raise RuntimeError and leave the builder as it was; the two tags are never
\* registered together.
C9_EqualGamesExclusive ==
    /\ [][(/\ BuilderCall
           /\ last'.op = "equal_games_constraint"
           /\ \/ last'.arg = <<1>> /\ "AlmostEqualGames" \in opt.constraints
              \/ last'.arg = <<0>> /\ "ExactlyEqualGames" \in opt.constraints)
            => (last'.err = "RuntimeError" /\ opt' = opt)]_vars
    /\ [](opt.built =>
            ~({"ExactlyEqualGames", "AlmostEqualGames"} \subseteq opt.constraints))

\* equal_games_constraint raised on the other tag
C9_Witness ==
    /\ last.op = "equal_games_constraint" /\ last.err = "RuntimeError"
    /\ \/ last.arg = <<1>> /\ "AlmostEqualGames" \in opt.constraints
       \/ last.arg = <<0>> /\ "ExactlyEqualGames" \in opt.constraints

\* C10 as stated: the ExactNumGames constraint tag and the MaximizeNumGames
\* objective tag are never registered together.
C10_ExactNumGamesOrMaximize ==
    opt.built =>
        ~("ExactNumGames" \in opt.constraints
          /\ "MaximizeNumGames" \in ObjectiveTags(opt))

\* C11 as stated: the NoDoubleHeaders constraint tag and the
\* MinimizeDoubleHeaders objective tag are never registered together.
C11_NoDoubleHeadersOrMinimize ==
    opt.built =>
        ~("NoDoubleHeaders" \in opt.constraints
          /\ "MinimizeDoubleHeaders" \in ObjectiveTags(opt))

-----------------------------------------------------------------------------
(* Schedule.py: a Schedule under populate_venues and assign *)

MaxScheduleCalls == 2   \* populate_venues / assign calls made on one Schedule

\* Python's None in the venue field of a Game.
NoVenue == "None"

Draw(date, start_time, game_length) == Game(date, start_time, game_length, NoVenue)

\* Schedule(games): the game lists a Schedule is built on.
ScheduleGames ==
    {<<Draw(0, 0, 1)>>,
     <<Draw(0, 0, 1), Draw(0, 2, 1)>>,
     <<Draw(0, 0, 1), Draw(1, 0, 1), Draw(2, 0, 1)>>,
     <<Draw(0, 0, 1), Slot(1, 0, 1)>>,
     SameDate}

\* Schedule(games, assignments): none given, or the first game already played.
ScheduleAssignments(gms) ==
    {EmptyAssignments(gms),
     [g \in DOMAIN gms |-> IF g = 1 THEN Roster(2) ELSE <<>>]}

VenueLists == {<<>>, <<Sheet1>>, <<Sheet1, Sheet2>>}

\* Variant: itertools.product(venues, self._games).
populate_venues_venue_major(gms, asg, venues) ==
    IF \E g \in DOMAIN gms : gms[g].venue # NoVenue
    THEN [games |-> gms, err |-> "RuntimeError"]
    ELSE IF \E g \in DOMAIN asg : Len(asg[g]) # 0
    THEN [games |-> gms, err |-> "RuntimeError"]
    ELSE [games |-> Flatten([v \in DOMAIN venues |->
                        [g \in DOMAIN gms |-> [gms[g] EXCEPT !.venue = venues[v]]]]),
          err |-> NoError]

\* The games after the call, and the exception raised if any.
populate_venues(gms, asg, venues) ==
    IF \E g \in DOMAIN gms : gms[g].venue # NoVenue
    THEN [games |-> gms, err |-> "RuntimeError"]
    ELSE IF \E g \in DOMAIN asg : Len(asg[g]) # 0
    THEN [games |-> gms, err |-> "RuntimeError"]
    ELSE [games |-> Flatten([g \in DOMAIN gms |->
                        [v \in DOMAIN venues |-> [gms[g] EXCEPT !.venue = venues[v]]]]),
          err |-> NoError]

ScheduleInit ==
    /\ \E gms \in ScheduleGames :
          /\ games = gms
          /\ assignments \in ScheduleAssignments(gms)
    /\ teams = Roster(2)
    /\ opt = NoOpt
    /\ called = {}
    /\ status = "NONE"
    /\ incumbent = <<>>
    /\ result = <<>>
    /\ last = Call("Schedule", <<>>)

\* schedule.populate_venues(venues)
PopulateVenues ==
    /\ last.n < MaxScheduleCalls
    /\ \E venues \in VenueLists :
        LET r == populate_venues(games, assignments, venues)
        IN /\ games' = r.games
           /\ last' = [op |-> "populate_venues", arg |-> venues, err |-> r.err,
                       n |-> last.n + 1]
    /\ UNCHANGED <<assignments, teams, opt, called, status, incumbent, result>>

\* schedule.assign(teams, required_games), at any point of the Schedule's life
AssignTeams ==
    /\ last.n < MaxScheduleCalls
    /\ \E required_games \in {None, 1} :
        LET built == AssignModel(games, teams, required_games)
            arg == <<required_games>>
        IN IF built.err # NoError
           THEN /\ last' = [op |-> "assign", arg |-> arg, err |-> built.err,
                            n |-> last.n + 1]
                /\ UNCHANGED <<assignments, status, incumbent>>
           ELSE \E o \in solve(built.b) :
                /\ assignments' = IF o.err = NoError THEN o.assignment ELSE assignments
                /\ status' = o.status
                /\ incumbent' = o.incumbent
                /\ last' = [op |-> "assign", arg |-> arg, err |-> o.err,
                            n |-> last.n + 1]
    /\ UNCHANGED <<games, teams, opt, called, result>>

ScheduleNext ==
    \/ PopulateVenues
    \/ AssignTeams

SpecSchedule == ScheduleInit /\ [][ScheduleNext]_vars

\* C12 as stated: in every reachable state of a Schedule the games and the
\* assignments have the same length.
C12_ParallelArrays == Len(games) = Len(assignments)

\* A step that is one more call on the Schedule.
ScheduleCall(op) == last'.op = op /\ last'.n = last.n + 1

\* C13: populate_venues(V) on a schedule without venues and without assigned
\* teams replaces the games by games x V: original game i becomes the
\* Len(V) consecutive games (i-1)*Len(V)+1 .. i*Len(V), carrying the venues in
\* the order of V; otherwise it raises RuntimeError and leaves games and
\* assignments as they were.
C13_PopulateVenuesProduct ==
    [][ScheduleCall("populate_venues") =>
        LET V == last'.arg
        IN IF /\ \A g \in DOMAIN games : games[g].venue = NoVenue
              /\ \A g \in DOMAIN assignments : assignments[g] = <<>>
           THEN /\ last'.err = NoError
                /\ Len(games') = Len(games) * Len(V)
                /\ \A i \in DOMAIN games : \A j \in DOMAIN V :
                      LET new == games'[(i - 1) * Len(V) + j]
                      IN /\ new.date = games[i].date
                         /\ new.start_time = games[i].start_time
                         /\ new.game_length = games[i].game_length
                         /\ new.venue = V[j]
           ELSE /\ last'.err = "RuntimeError"
                /\ games' = games
                /\ assignments' = assignments]_vars

\* three games populated with two sheets: six games
C13_Witness ==
    /\ last.op = "populate_venues" /\ last.err = NoError
    /\ Len(last.arg) = 2
    /\ Len(games) = 6

-----------------------------------------------------------------------------
(* Game.py: comparisons of two games *)

MaxGameDate == 1     \* dates 0..MaxGameDate of the compared games
MaxGameLength == 2   \* lengths 0..MaxGameLength, or None

\* Sheet.identifier
SheetNumber(v) == IF v = Sheet1 THEN 1 ELSE 2

\* Venue.__lt__ for two venues of one type with identifiers of one type
Venue_lt(v, w) == SheetNumber(v) < SheetNumber(w)

\* Game.__eq__
Game_eq(a, b) ==
    /\ a.date = b.date
    /\ a.start_time = b.start_time
    /\ a.game_length = b.game_length
    /\ a.venue = b.venue

\* Game.__lt__
Game_lt(a, b) ==
    IF a.date = b.date
    THEN IF a.start_time = b.start_time
         THEN IF b.game_length = None THEN TRUE
              ELSE IF a.game_length = None \/ a.game_length = b.game_length
                   THEN Venue_lt(a.venue, b.venue)
              ELSE a.game_length < b.game_length
         ELSE a.start_time < b.start_time
    ELSE a.date < b.date

\* The games that are compared.
GameSet ==
    {Game(d, s, l, v) : d \in 0..MaxGameDate, s \in 0..(TicksPerDay - 1),
                        l \in {None} \cup 0..MaxGameLength, v \in {Sheet1, Sheet2}}

GameInit ==
    /\ games \in {<<a, b>> : a \in GameSet, b \in GameSet}
    /\ assignments = EmptyAssignments(games)
    /\ teams = <<>>
    /\ opt = NoOpt
    /\ called = {}
    /\ status = "NONE"
    /\ incumbent = <<>>
    /\ result = <<>>
    /\ last = Call("Game", <<>>)

\* What a comparison of games[1] with games[2] returned.
Compared(op, value) ==
    /\ result' = value
    /\ last' = [op |-> op, arg |-> <<1, 2>>, err |-> NoError, n |-> 1]
    /\ UNCHANGED <<games, assignments, teams, opt, called, status, incumbent>>

\* games[1].overlaps(games[2]), both with a length
Overlaps ==
    /\ last.n = 0
    /\ games[1].game_length # None /\ games[2].game_length # None
    /\ Compared("overlaps", overlaps(games[1], games[2]))

\* games[1] < games[2]
LessThan ==
    /\ last.n = 0
    /\ Compared("__lt__", Game_lt(games[1], games[2]))

\* games[1] == games[2]
Equals ==
    /\ last.n = 0
    /\ Compared("__eq__", Game_eq(games[1], games[2]))

GameNext ==
    \/ Overlaps
    \/ LessThan
    \/ Equals

SpecGame == GameInit /\ [][GameNext]_vars

\* Both compared games have a length, hence an end.
EndsDefined == \A g \in DOMAIN games : games[g].game_length # None

\* Some instant lies in [a.start, a.end) and in [b.start, b.end).
HalfOpenIntersect(a, b) ==
    \E t \in 0..((MaxGameDate + 1) * TicksPerDay + MaxGameLength) :
        /\ game_start(a) <= t /\ t < game_end(a)
        /\ game_start(b) <= t /\ t < game_end(b)

SharedEndpoint(a, b) ==
    game_start(a) = game_start(b) \/ game_end(a) = game_end(b)

\* The game that starts later starts strictly before the other one ends.
LaterStartInside(a, b) ==
    \/ game_start(a) < game_start(b) /\ game_start(b) < game_end(a)
    \/ game_start(b) < game_start(a) /\ game_start(a) < game_end(b)

\* C14 as stated: a.overlaps(b) exactly when the half-open intervals
\* intersect or the starts are equal or the ends are equal.
C14_OverlapsIsHalfOpenIntersection ==
    last.op = "overlaps" =>
        result = (HalfOpenIntersect(games[1], games[2])
                    \/ SharedEndpoint(games[1], games[2]))

\* C14: a.overlaps(b) exactly when the starts are equal, or the ends are
\* equal, or the game that starts later starts strictly before the other
\* ends; for games of positive length that is exactly when the half-open
\* intervals intersect or an endpoint is shared; overlaps is symmetric and
\* reflexive.
C14_OverlapsLaterStartInside ==
    EndsDefined =>
        LET a == games[1]
            b == games[2]
        IN /\ overlaps(a, b) = (SharedEndpoint(a, b) \/ LaterStartInside(a, b))
           /\ (a.game_length > 0 /\ b.game_length > 0) =>
                 overlaps(a, b) = (HalfOpenIntersect(a, b) \/ SharedEndpoint(a, b))
           /\ overlaps(a, b) = overlaps(b, a)
           /\ overlaps(a, a)
           /\ last.op = "overlaps" => result = overlaps(a, b)

\* overlaps returned True for a game of no duration strictly inside the other
C14_Witness ==
    /\ last.op = "overlaps" /\ result = TRUE
    /\ games[2].game_length = 0
    /\ game_start(games[1]) < game_start(games[2])
    /\ game_end(games[2]) < game_end(games[1])

\* A missing length sorts after every present length.
LengthKey(g) == IF g.game_length = None THEN MaxGameLength + 2 ELSE g.game_length

\* a is before b lexicographically on (date, start_time, length, venue).
LexLess(a, b) ==
    \/ a.date < b.date
    \/ a.date = b.date /\ a.start_time < b.start_time
    \/ a.date = b.date /\ a.start_time = b.start_time
         /\ LengthKey(a) < LengthKey(b)
    \/ a.date = b.date /\ a.start_time = b.start_time
         /\ LengthKey(a) = LengthKey(b) /\ SheetNumber(a.venue) < SheetNumber(b.venue)

ExactlyOne(p, q, r) ==
    \/ p /\ ~q /\ ~r
    \/ ~p /\ q /\ ~r
    \/ ~p /\ ~q /\ r

\* C15 as stated: a < b is the lexicographic order on (date, start_time,
\* length with None last, venue); exactly one of a < b, a == b, b < a holds;
\* and < is transitive.
C15_GameStrictTotalOrder ==
    last.op = "__lt__" =>
        LET a == games[1]
            b == games[2]
        IN /\ result = LexLess(a, b)
           /\ ExactlyOne(Game_lt(a, b), Game_eq(a, b), Game_lt(b, a))
           /\ \A c \in GameSet :
                 (Game_lt(a, b) /\ Game_lt(b, c)) => Game_lt(a, c)

-----------------------------------------------------------------------------
(* Team.py: equality and hash of two teams *)

MaxMembers == 2   \* longest member list of a compared team

\* s with x put before the first element greater than x (s sorted)
Insert(s, x) ==
    LET k == Cardinality({i \in DOMAIN s : s[i] <= x})
    IN SubSeq(s, 1, k) \o <<x>> \o SubSeq(s, k + 1, Len(s))

RECURSIVE Sort(_)
\* list.sort()
Sort(s) == IF s = <<>> THEN <<>> ELSE Insert(Sort(Tail(s)), Head(s))

\* Team(name, members): the members are kept sorted.  Member names are
\* numbered in their alphabetical order.
Team(name, members) == [name |-> name, members |-> Sort(members)]

\* Team.__eq__
Team_eq(a, b) ==
    /\ a.name = b.name
    /\ \A i \in DOMAIN a.members : a.members[i] \in Range(b.members)

\* Team.__hash__: the tuple that is hashed
Team_hash(a) == <<a.name>> \o a.members

MemberLists == UNION {[1..n -> 1..2] : n \in 0..MaxMembers}

TeamSet == {Team(name, members) : name \in {"A", "B"}, members \in MemberLists}

TeamInit ==
    /\ teams \in {<<a, b>> : a \in TeamSet, b \in TeamSet}
    /\ games = <<>>
    /\ assignments = <<>>
    /\ opt = NoOpt
    /\ called = {}
    /\ status = "NONE"
    /\ incumbent = <<>>
    /\ result = <<>>
    /\ last = Call("Team", <<>>)

\* teams[1] == teams[2]
TeamEquals ==
    /\ last.n = 0
    /\ result' = Team_eq(teams[1], teams[2])
    /\ last' = [op |-> "__eq__", arg |-> <<1, 2>>, err |-> NoError, n |-> 1]
    /\ UNCHANGED <<games, assignments, teams, opt, called, status, incumbent>>

\* hash(teams[1]) == hash(teams[2])
TeamHashEquals ==
    /\ last.n = 0
    /\ result' = (Team_hash(teams[1]) = Team_hash(teams[2]))
    /\ last' = [op |-> "__hash__", arg |-> <<1, 2>>, err |-> NoError, n |-> 1]
    /\ UNCHANGED <<games, assignments, teams, opt, called, status, incumbent>>

TeamNext ==
    \/ TeamEquals
    \/ TeamHashEquals

SpecTeam == TeamInit /\ [][TeamNext]_vars

SameNameAndMembers(a, b) ==
    a.name = b.name /\ Range(a.members) = Range(b.members)

\* C16 as stated: a == b exactly when the teams have the same name and the
\* same set of members; equality is symmetric; equal teams have equal hashes.
C16_TeamEqualityNameAndMembers ==
    LET a == teams[1]
        b == teams[2]
    IN /\ last.op = "__eq__" =>
            /\ result = SameNameAndMembers(a, b)
            /\ result = Team_eq(b, a)
       /\ last.op = "__hash__" => (Team_eq(a, b) => result = TRUE)

-----------------------------------------------------------------------------
(* Weekday.py and Schedule.naive_schedule.  Dates are day numbers; day 0 is a
   Monday. *)

MaxDay == 15   \* start_date and end_date lie in 0..MaxDay

\* date.isoweekday(): Monday 1 .. Sunday 7
isoweekday(date) == (date % 7) + 1

\* Weekday: Sunday = 1 .. Saturday = 7
Weekdays == 1..7

\* Weekday.as_list(start_on_sunday=True)
as_list == <<1, 2, 3, 4, 5, 6, 7>>

\* Weekday.from_date: as_list()[date.isoweekday()], zero-based; index 7 is
\* out of range.
from_date(date) ==
    IF isoweekday(date) + 1 \in DOMAIN as_list
    THEN [value |-> as_list[isoweekday(date) + 1], err |-> NoError]
    ELSE [value |-> None, err |-> "IndexError"]

\* Weekday.to_index(iso_format=True)
to_index(weekday) == weekday - 1

\* Weekday.Next
WeekdayNext(date, weekday) ==
    LET days_ahead == to_index(weekday) - isoweekday(date)
    IN date + (IF days_ahead < 0 THEN days_ahead + 7 ELSE days_ahead)

RECURSIVE MaxOf(_)
\* max(list) of a non-empty list
MaxOf(s) == IF Len(s) = 1 THEN s[1] ELSE Max(Head(s), MaxOf(Tail(s)))

RECURSIVE ExtendDays(_, _, _, _, _)
\* the while loop of naive_schedule
ExtendDays(days, starting_days, max_date, num_weeks, end_date) ==
    IF max_date <= end_date
    THEN ExtendDays(
            days \o SelectSeq([k \in DOMAIN starting_days |->
                                  starting_days[k] + 7 * num_weeks],
                              LAMBDA d : d <= end_date),
            starting_days, max_date + 7, num_weeks + 1, end_date)
    ELSE days

\* Schedule.naive_schedule: the games of the schedule returned, or the
\* exception raised.  weekdays and venues <<>> stand for None or [].
naive_schedule(start_date, end_date, game_times, weekdays, game_length, venues) ==
    LET default == from_date(start_date)
    IN IF weekdays = <<>> /\ default.err # NoError
       THEN [games |-> <<>>, err |-> default.err]
       ELSE IF start_date > end_date
       THEN [games |-> <<>>, err |-> "ValueError"]
       ELSE
       LET wds == IF weekdays = <<>> THEN <<default.value>> ELSE weekdays
           starting_days == [k \in DOMAIN wds |-> WeekdayNext(start_date, wds[k])]
           days == ExtendDays(SelectSeq(starting_days, LAMBDA d : d <= end_date),
                              starting_days, MaxOf(starting_days), 1, end_date)
       IN IF days = <<>>
          THEN [games |-> <<>>, err |-> "ValueError"]   \* max(days) of an empty list
          ELSE IF venues = <<>>
          THEN [games |-> Flatten([d \in DOMAIN days |->
                            [t \in DOMAIN game_times |->
                                Game(days[d], game_times[t], game_length, NoVenue)]]),
                err |-> NoError]
          ELSE [games |-> Flatten([d \in DOMAIN days |->
                            Flatten([t \in DOMAIN game_times |->
                                [v \in DOMAIN venues |->
                                    Game(days[d], game_times[t], game_length, venues[v])]])]),
                err |-> NoError]

\* The weekday lists passed: none, one weekday, or two different ones.
WeekdayLists ==
    {<<>>} \cup {<<w>> : w \in Weekdays} \cup {<<3, 6>>, <<7, 2>>, <<1, 5>>}

NaiveArguments ==
    [start_date : 0..MaxDay, end_date : 0..MaxDay,
     game_times : {<<1>>, <<1, 2>>}, weekdays : WeekdayLists,
     venues : {<<>>, <<Sheet1, Sheet2>>}]

NaiveInit ==
    /\ games = <<>>
    /\ assignments = <<>>
    /\ teams = <<>>
    /\ opt = NoOpt
    /\ called = {}
    /\ status = "NONE"
    /\ incumbent = <<>>
    /\ result = <<>>
    /\ \E args \in NaiveArguments : last = Call("arguments", args)

\* schedule = Schedule.naive_schedule(...) on the arguments at hand
NaiveSchedule ==
    /\ last.n = 0
    /\ LET a == last.arg
           r == naive_schedule(a.start_date, a.end_date, a.game_times,
                               a.weekdays, 1, a.venues)
       IN /\ games' = r.games
          /\ assignments' = IF r.err = NoError THEN EmptyAssignments(r.games)
                            ELSE assignments
          /\ last' = [op |-> "naive_schedule", arg |-> a, err |-> r.err, n |-> 1]
    /\ UNCHANGED <<teams, opt, called, status, incumbent, result>>

NaiveNext == NaiveSchedule

SpecNaive == NaiveInit /\ [][NaiveNext]_vars

\* The Weekday of a day number: day 0 is a Monday (2), day 6 a Sunday (1).
WeekdayOf(date) == (((date % 7) + 1) % 7) + 1

\* The dates of the window whose weekday is asked for.
WindowDates(a) ==
    {d \in a.start_date .. a.end_date :
        WeekdayOf(d) \in (IF a.weekdays = <<>> THEN {WeekdayOf(a.start_date)}
                          ELSE Range(a.weekdays))}

WindowGames(a) ==
    {Game(d, t, 1, v) : d \in WindowDates(a), t \in Range(a.game_times),
                        v \in (IF a.venues = <<>> THEN {NoVenue} ELSE Range(a.venues))}

\* C17 as stated: for start_date <= end_date naive_schedule returns exactly
\* one game per element of dates x game_times [x venues], dates being the
\* dates of the window whose weekday is in weekdays; an empty schedule when
\* there is none.
C17_NaiveScheduleWindow ==
    (last.op = "naive_schedule" /\ last.arg.start_date <= last.arg.end_date) =>
        /\ last.err = NoError
        /\ Range(games) = WindowGames(last.arg)
        /\ Len(games) = Cardinality(WindowGames(last.arg))

-----------------------------------------------------------------------------
(* Properties of the overlap groups and of the icemaker objective *)

\* Every way of putting teams into the games of the optimizer.
AllSchedules(b) == [AllGames(b) -> SUBSET AllTeams(b)]

\* No team is in two different games that overlap.
PairwiseNoOverlap(b, x) ==
    \A g1, g2 \in AllGames(b) :
        (g1 # g2 /\ overlaps(b.games[g1], b.games[g2])) => x[g1] \cap x[g2] = {}

\* The schedule[g][t] part of the solutions of the model.
ScheduleValues(b) == {[g \in AllGames(b) |-> sol[g].x] : sol \in Solutions(b)}

\* C18 as stated: the model with no_double_scheduling_constraint alone admits
\* exactly the schedules in which no team is in two games that overlap.
C18_NoDoubleSchedulingExact ==
    (opt.built /\ CalledOps = {"no_double_scheduling_constraint"}) =>
        ScheduleValues(opt) = {x \in AllSchedules(opt) : PairwiseNoOverlap(opt, x)}

\* Game g2 starts at the instant g1 ends, and they share no start and no end.
BackToBackGames(g1, g2) ==
    /\ game_end(games[g1]) = game_start(games[g2])
    /\ game_start(games[g1]) # game_start(games[g2])
    /\ game_end(games[g1]) # game_end(games[g2])

NotFirstDrawOfDay(b) ==
    {g \in AllGames(b) :
        \E h \in AllGames(b) :
            /\ DateOf(game_start(b.games[h])) = DateOf(game_start(b.games[g]))
            /\ game_start(b.games[h]) < game_start(b.games[g])}

\* C20 as stated: icemaker_objective(icemakers) registers the sum of
\* schedule[g][t] over the games g that are not the first draw of their date
\* and the icemakers t, and requires that sum to be at least 1.
C20_IcemakerNotFirstDrawOfDay ==
    (last.op = "icemaker_objective" /\ last.err = NoError) =>
        \E o \in opt.objectives :
            /\ o.tag = "IceMakers"
            /\ o.ts = last.arg
            /\ o.gs = NotFirstDrawOfDay(opt)
            /\ o.gs # {} => BagIn(Lin(o.gs, o.ts, 1,
                                      Cardinality(o.gs) * Cardinality(o.ts), 0),
                                  opt.model)

-----------------------------------------------------------------------------
\* require_num_games(N, exact=False)

\* The successful require_num_games(num_games, exact=False, max_games) calls.
MinimumCalls == {c \in called : c[1] = "require_num_games" /\ c[2][2] = 0}

\* The call is accepted as the first builder call, with or without max_games.
MinimumAccepted ==
    (last.op = "require_num_games" /\ last.n = 1 /\ last.arg[2] = 0) =>
        (last.err = NoError /\ "MinimumRequiredGames" \in opt.constraints)

\* Every solution gives each team at least num_games games.
MinimumImposed ==
    SolveReturned =>
        \A c \in MinimumCalls : \A t \in Range(teams) :
            GamesPlayed(result, t) >= c[2][1]

\* Every solution gives each team at most max_games games.
MaximumImposed ==
    SolveReturned =>
        \A c \in MinimumCalls : \A t \in Range(teams) :
            c[2][3] # None => GamesPlayed(result, t) <= c[2][3]

\* C21 as stated: require_num_games(N, exact=False) is accepted with or
\* without max_games, registers MinimumRequiredGames, gives every team at
\* least N games in every solution and, with max_games given, at most
\* max_games games.
C21_MinimumRequiredGames == MinimumAccepted /\ MinimumImposed /\ MaximumImposed

-----------------------------------------------------------------------------
\* The domain of the pair counts

\* More single-game dates than the pair counts can hold.
MoreDatesThanTeams ==
    /\ Len(games) > Len(teams)
    /\ \A g1, g2 \in DOMAIN games :
          g1 # g2 => SpanDates(games[g1]) \cap SpanDates(games[g2]) = {}

\* C23: with RoundRobin registered no solution has a pair of teams together
\* in more than len(teams) games, and with two teams a model with RoundRobin
\* and NoDoubleHeaders over more single-game dates than teams has no
\* solution.
C23_PairCountWithinTeams ==
    /\ (SolveReturned /\ "RoundRobin" \in opt.constraints) =>
          \A p \in NamePairs : PairGames(result, p) <= Len(teams)
    /\ (opt.built /\ {"RoundRobin", "NoDoubleHeaders"} \subseteq opt.constraints
          /\ Len(teams) = 2 /\ MoreDatesThanTeams) =>
          Solutions(opt) = {}

\* solve() found no solution on three single-game dates and two teams with
\* RoundRobin and NoDoubleHeaders, where NoDoubleHeaders alone has solutions
C23_Witness ==
    /\ last.op = "solve" /\ last.err = "RuntimeError" /\ status = "INFEASIBLE"
    /\ opt.constraints = {"RoundRobin", "NoDoubleHeaders"}
    /\ Len(teams) = 2 /\ MoreDatesThanTeams
    /\ Solutions(disallow_double_headers(ScheduleOptimizer(games, teams)).b) # {}

-----------------------------------------------------------------------------
(* ScheduleSolutionCallback.on_solution_callback, invoked once per incumbent
   by the solver's worker threads.  The method takes no lock, so the
   invocations interleave at every read and write of the shared counter:
   incumbent[i] is the position of the invocation for the i-th incumbent,
   opt is the callback object, called is the set of <<k, i>> where
   invocation i opened solution_k.pickle, and result lists the snapshots
   dumped, in order. *)

MaxInvocations == 3    \* incumbents the solver reports in one solve

Invocations == 1..MaxInvocations

\* ScheduleSolutionCallback(...): the counter starts at 0; empty_draws is an
\* IntVar only if empty_full_draw_objective was called.
ScheduleSolutionCallback(empty_draws) ==
    [built |-> FALSE, solution_count |-> 0, empty_draws |-> empty_draws]

CallbackInit ==
    /\ opt \in {ScheduleSolutionCallback(e) : e \in BOOLEAN}
    /\ incumbent = [i \in Invocations |-> [pc |-> "load", count |-> 0, name |-> 0]]
    /\ called = {}
    /\ result = <<>>
    /\ games = <<>>
    /\ assignments = <<>>
    /\ teams = <<>>
    /\ status = "NONE"
    /\ last = Call("ScheduleSolutionCallback", <<>>)

\* self.__solution_count += 1, first half: the value is read
LoadCount ==
    \E i \in Invocations :
        /\ incumbent[i].pc = "load"
        /\ incumbent' = [incumbent EXCEPT ![i].pc = "store",
                                          ![i].count = opt.solution_count]
        /\ UNCHANGED <<games, assignments, teams, opt, called, status, result, last>>

\* self.__solution_count += 1, second half: the value read plus one is stored
StoreCount ==
    \E i \in Invocations :
        /\ incumbent[i].pc = "store"
        /\ opt' = [opt EXCEPT !.solution_count = incumbent[i].count + 1]
        /\ incumbent' = [incumbent EXCEPT ![i].pc = "open"]
        /\ UNCHANGED <<games, assignments, teams, called, status, result, last>>

\* open(f"solution_{self.solution_count()}.pickle", "wb"): the counter is
\* read again for the file name
OpenSink ==
    \E i \in Invocations :
        /\ incumbent[i].pc = "open"
        /\ incumbent' = [incumbent EXCEPT ![i].pc = "dump",
                                          ![i].name = opt.solution_count]
        /\ called' = called \cup {<<opt.solution_count, i>>}
        /\ UNCHANGED <<games, assignments, teams, opt, status, result, last>>

\* pickle.dump({...}, out): Value(self.empty_draws) raises on None before
\* anything is written
DumpSnapshot ==
    \E i \in Invocations :
        /\ incumbent[i].pc = "dump"
        /\ incumbent' = [incumbent EXCEPT ![i].pc = "done"]
        /\ result' = IF opt.empty_draws
                     THEN Append(result, [name |-> incumbent[i].name, by |-> i])
                     ELSE result
        /\ UNCHANGED <<games, assignments, teams, opt, called, status, last>>

CallbackNext ==
    \/ LoadCount
    \/ StoreCount
    \/ OpenSink
    \/ DumpSnapshot

SpecCallback == CallbackInit /\ [][CallbackNext]_vars

\* Every invocation has returned.
AllReturned == \A i \in Invocations : incumbent[i].pc = "done"

\* C22 as stated: after n invocations of the callback, however interleaved,
\* the counter equals n and the snapshots carry the n distinct tags 1..n, no
\* two invocations writing to the same solution_k sink.
C22_CounterAtomic ==
    (AllReturned /\ opt.empty_draws) =>
        /\ opt.solution_count = MaxInvocations
        /\ {result[k].name : k \in DOMAIN result} = Invocations
        /\ \A c, d \in called : c[1] = d[1] => c[2] = d[2]

====
